---- MODULE Spec2Model ----
(***************************************************************************)
(* A model of src/utils.py: save_checkpoint, AverageMeter, accuracy,       *)
(* CyclicLr, StepMinLr and timed_operation.                                *)
(*                                                                         *)
(* The helpers are independent of one another, so each has its own         *)
(* specification (SpecMeter, SpecTimer, SpecCheckpoint, SpecSched,         *)
(* SpecAccuracy) over the shared variables; the variables of the other     *)
(* helpers stay at their initial values.                                   *)
(*                                                                         *)
(* Numbers: Python floats are modelled as exact rationals <<n, d>> with    *)
(* d > 0 in lowest terms, so sum / count, lr_decay_factor ** k and         *)
(* elapsed / ns are computed, not assumed.                                 *)
(***************************************************************************)
EXTENDS Integers, Sequences, FiniteSets, TLC

VARIABLES
    meter,      \* AverageMeter: [val, avg, sum, count]
    raised,     \* what the last AverageMeter call raised ("none" if nothing)
    calls,      \* the update(val, n) calls made since construction or reset
    tpc,        \* timed_operation: "idle", "body" (suspended at yield), "done"
    targs,      \* timed_operation arguments [msg, log_start, tformat]
    now,        \* time.time(), in seconds
    start,      \* the local `start` of timed_operation
    out,        \* printed lines
    bodyEnd,    \* how the enclosed operation ended: "none", "normal", "raised"
    texc,       \* the exception that leaves the with statement ("none" if none)
    fs,         \* the file system: path -> content, for the files that exist
    ckCall,     \* the save_checkpoint calls made, each with the file system before it
    ckRaised,   \* what the last save_checkpoint call raised
    sched,      \* a schedule object: its kind and constructor arguments
    epochArg,   \* the epoch of the last schedule call
    lrOut,      \* the rate the last schedule call returned
    batch,      \* accuracy arguments [output, target, topk]
    pred,       \* accuracy's `pred` after topk and t(): pred[j][i]
    res,        \* accuracy's result list
    apc         \* accuracy: "ready", "returned"

vars == <<meter, raised, calls, tpc, targs, now, start, out, bodyEnd, texc,
          fs, ckCall, ckRaised, sched, epochArg, lrOut, batch, pred, res, apc>>

meterVars == <<meter, raised, calls>>
timerVars == <<tpc, targs, now, start, out, bodyEnd, texc>>
ckVars == <<fs, ckCall, ckRaised>>
schedVars == <<sched, epochArg, lrOut>>
accVars == <<batch, pred, res, apc>>

----------------------------------------------------------------------------
(* Exact rational arithmetic.                                              *)

Abs(x) == IF x < 0 THEN -x ELSE x

RECURSIVE Gcd(_, _)
Gcd(a, b) == IF b = 0 THEN a ELSE Gcd(b, a % b)

\* n / d in lowest terms with a positive denominator (d # 0)
Rat(n, d) ==
    LET g == Gcd(Abs(n), Abs(d))
        s == IF d < 0 THEN -1 ELSE 1
    IN  <<(s * n) \div g, (s * d) \div g>>

RInt(n) == <<n, 1>>
RMul(a, b) == Rat(a[1] * b[1], a[2] * b[2])
RDiv(a, b) == Rat(a[1] * b[2], a[2] * b[1])
RLeq(a, b) == a[1] * b[2] <= b[1] * a[2]
RMaxOf(a, b) == IF RLeq(b, a) THEN a ELSE b

RECURSIVE RPowNat(_, _)
RPowNat(a, k) == IF k = 0 THEN RInt(1) ELSE RMul(a, RPowNat(a, k - 1))

\* a ** k for an integer k (a # 0 when k < 0)
RPow(a, k) == IF k >= 0 THEN RPowNat(a, k) ELSE RDiv(RInt(1), RPowNat(a, -k))

\* int(a / b) for integers a, b with b > 0: true division, then truncation
\* toward zero
TruncDiv(a, b) == IF a >= 0 THEN a \div b ELSE -((-a) \div b)

----------------------------------------------------------------------------
(* AverageMeter                                                            *)

MaxCalls == 3
Values == {-1, 0, 1, 2}
Weights == {-1, 0, 1, 2}

\* reset(): val = avg = sum = count = 0
MeterReset == [val |-> 0, avg |-> RInt(0), sum |-> 0, count |-> 0]

\* self.sum / self.count: a ZeroDivisionError when count is 0, which leaves
\* avg as it was
MeterAvg(m, s, c) == IF c = 0 THEN m.avg ELSE Rat(s, c)

MeterUpdateUnweighted(m, v, n) ==
    [val |-> v,
     sum |-> m.sum + v,
     count |-> m.count + n,
     avg |-> MeterAvg(m, m.sum + v, m.count + n)]

\* the fields after update(v, n): the three assignments of lines 28-30 are
\* made before the division of line 31 is evaluated
MeterUpdate(m, v, n) ==
    [val |-> v,
     sum |-> m.sum + v * n,
     count |-> m.count + n,
     avg |-> MeterAvg(m, m.sum + v * n, m.count + n)]

\* AverageMeter() : __init__ calls reset()
MeterInit ==
    /\ meter = MeterReset
    /\ raised = "none"
    /\ calls = <<>>

Reset ==
    /\ meter' = MeterReset
    /\ raised' = "none"
    /\ calls' = <<>>
    /\ UNCHANGED <<timerVars, ckVars, schedVars, accVars>>

Update(v, n) ==
    /\ Len(calls) < MaxCalls
    /\ meter' = MeterUpdate(meter, v, n)
    /\ raised' = IF meter.count + n = 0 THEN "ZeroDivisionError" ELSE "none"
    /\ calls' = Append(calls, [val |-> v, n |-> n])
    /\ UNCHANGED <<timerVars, ckVars, schedVars, accVars>>

UpdateAny == \E v \in Values, n \in Weights : Update(v, n)

----------------------------------------------------------------------------
(* timed_operation                                                         *)

Msgs == {"load", "train"}
TFormats == {"s", "m", "h", "d", "ms"}
\* how long the enclosed operation may take, in seconds
Durations == {90, 5400, 129600}
\* what time.time() may read when the with statement is entered
ClockStarts == {0, 1000}

\* '{:.4f}': x rounded to four decimals (ties to even), as a count of 1/10000
Fmt4(x) ==
    LET n == x[1] * 10000
        q == n \div x[2]
        r == n - q * x[2]
    IN  IF 2 * r > x[2] THEN q + 1
        ELSE IF 2 * r = x[2] THEN q + (q % 2)
        ELSE q

\* lines 108-117: `if tformat == 's'` is a statement of its own; the chain
\* `if 'm' ... elif 'h' ... elif 'd' ... else: raise` follows it, so 's'
\* binds ns = 1. and then reaches the else branch.
TimerNs(tformat) ==
    IF tformat = "m" THEN [raises |-> FALSE, ns |-> 60]
    ELSE IF tformat = "h" THEN [raises |-> FALSE, ns |-> 60 * 60]
    ELSE IF tformat = "d" THEN [raises |-> FALSE, ns |-> 60 * 60 * 24]
    ELSE [raises |-> TRUE, ns |-> IF tformat = "s" THEN 1 ELSE 0]

StartLine(msg) == [kind |-> "start", msg |-> msg, value |-> 0, unit |-> ""]

\* '{} finished, time:{:.4f}{}.'.format(msg, (time.time() - start) / ns, tformat)
FinishedLine(msg, elapsed, ns, tformat) ==
    [kind |-> "finished", msg |-> msg, value |-> Fmt4(Rat(elapsed, ns)),
     unit |-> tformat]

TimerInit ==
    /\ tpc = "idle"
    /\ targs = [msg |-> "load", log_start |-> FALSE, tformat |-> "s"]
    /\ now \in ClockStarts
    /\ start = 0
    /\ out = <<>>
    /\ bodyEnd = "none"
    /\ texc = "none"

\* `with timed_operation(msg, log_start, tformat):` runs the generator up to
\* its yield
Enter(msg, log_start, tformat) ==
    /\ tpc = "idle"
    /\ targs' = [msg |-> msg, log_start |-> log_start, tformat |-> tformat]
    /\ out' = IF log_start THEN Append(out, StartLine(msg)) ELSE out
    /\ start' = now
    /\ tpc' = "body"
    /\ UNCHANGED <<now, bodyEnd, texc>>
    /\ UNCHANGED <<meterVars, ckVars, schedVars, accVars>>

EnterAny ==
    \E msg \in Msgs, log_start \in BOOLEAN, tformat \in TFormats :
        Enter(msg, log_start, tformat)

\* the enclosed operation takes d seconds
BodyRuns(d) ==
    /\ tpc = "body"
    /\ now = start
    /\ now' = now + d
    /\ UNCHANGED <<tpc, targs, start, out, bodyEnd, texc>>
    /\ UNCHANGED <<meterVars, ckVars, schedVars, accVars>>

BodyRunsAny == \E d \in Durations : BodyRuns(d)

\* the enclosed operation completes: the generator is resumed after its yield
\* and runs lines 108-119
ExitNormal ==
    /\ tpc = "body"
    /\ bodyEnd' = "normal"
    /\ LET u == TimerNs(targs.tformat)
       IN  IF u.raises
           THEN /\ texc' = "ValueError"
                /\ out' = out
           ELSE /\ texc' = "none"
                /\ out' = Append(out, FinishedLine(targs.msg, now - start,
                                                   u.ns, targs.tformat))
    /\ tpc' = "done"
    /\ UNCHANGED <<targs, now, start>>
    /\ UNCHANGED <<meterVars, ckVars, schedVars, accVars>>

\* the enclosed operation raises: the exception is thrown into the generator
\* at its yield, which is in no try block, so no line after it runs and the
\* exception leaves the with statement
ExitRaise ==
    /\ tpc = "body"
    /\ bodyEnd' = "raised"
    /\ texc' = "BodyError"
    /\ tpc' = "done"
    /\ UNCHANGED <<targs, now, start, out>>
    /\ UNCHANGED <<meterVars, ckVars, schedVars, accVars>>

----------------------------------------------------------------------------
(* save_checkpoint                                                         *)
(*                                                                         *)
(* A string is a sequence of tokens; "/" and "." are tokens of their own   *)
(* and no other token contains either, so the path functions see every     *)
(* separator. Every string of the model is written with the same tokens,   *)
(* so that equal strings are equal sequences.                              *)

MaxSaves == 2
CkStates == {"epoch1", "epoch2"}
Suffixes == {<<>>, <<"_x">>}
PthTar == <<".", "pth", ".", "tar">>
FilePaths ==
    { <<"checkpoint">> \o PthTar,
      <<"run", "/", "checkpoint">> \o PthTar,
      <<"run", "/", "ckpt", ".", "pt">>,
      <<"/", "ckpt", ".", "pt">>,
      <<"model_best">> \o PthTar }

\* the index of the last "/" of p, 0 if there is none
LastSlash(p) ==
    LET S == {i \in 1..Len(p) : p[i] = "/"}
    IN  IF S = {} THEN 0 ELSE CHOOSE i \in S : \A j \in S : j <= i

RECURSIVE RStripSlash(_)
RStripSlash(p) ==
    IF p # <<>> /\ p[Len(p)] = "/" THEN RStripSlash(SubSeq(p, 1, Len(p) - 1))
    ELSE p

\* os.path.dirname (posixpath): the head up to the last slash, with its
\* trailing slashes stripped unless it is all slashes
dirname(p) ==
    LET head == SubSeq(p, 1, LastSlash(p))
    IN  IF head # <<>> /\ (\E i \in 1..Len(head) : head[i] # "/")
        THEN RStripSlash(head)
        ELSE head

\* os.path.join (posixpath) of two components
join(a, b) ==
    IF b # <<>> /\ b[1] = "/" THEN b
    ELSE IF a = <<>> \/ a[Len(a)] = "/" THEN a \o b
    ELSE a \o <<"/">> \o b

BestPathCwd(filepath, best_suffix) ==
    <<"model_best">> \o best_suffix \o PthTar

\* os.path.join(os.path.dirname(filepath),
\*              'model_best{}.pth.tar'.format(best_suffix))
BestPath(filepath, best_suffix) ==
    join(dirname(filepath), <<"model_best">> \o best_suffix \o PthTar)

\* torch.save(obj, path) and shutil.copyfile's write: the file at path holds
\* content afterwards, whatever it held before
WriteFile(f, path, content) ==
    [q \in DOMAIN f \cup {path} |-> IF q = path THEN content ELSE f[q]]

CheckpointEffectAlwaysCopies(f, state, is_best, filepath, best_suffix) ==
    LET f1 == WriteFile(f, filepath, state)
        dst == BestPath(filepath, best_suffix)
    IN  IF dst = filepath
        THEN [fs |-> f1, raised |-> "SameFileError"]
        ELSE [fs |-> WriteFile(f1, dst, f1[filepath]), raised |-> "none"]

\* save_checkpoint: the file system afterwards and what the call raised.
\* shutil.copyfile raises SameFileError when source and destination are the
\* same file.
CheckpointEffect(f, state, is_best, filepath, best_suffix) ==
    LET f1 == WriteFile(f, filepath, state)
        dst == BestPath(filepath, best_suffix)
    IN  IF ~is_best THEN [fs |-> f1, raised |-> "none"]
        ELSE IF dst = filepath
        THEN [fs |-> f1, raised |-> "SameFileError"]
        ELSE [fs |-> WriteFile(f1, dst, f1[filepath]), raised |-> "none"]

NoFiles == [q \in {} |-> "epoch1"]

CkInit ==
    /\ fs = NoFiles
    /\ ckCall = <<>>
    /\ ckRaised = "none"

SaveCheckpoint(state, is_best, filepath, best_suffix) ==
    LET e == CheckpointEffect(fs, state, is_best, filepath, best_suffix)
    IN  /\ Len(ckCall) < MaxSaves
        /\ fs' = e.fs
        /\ ckRaised' = e.raised
        /\ ckCall' = Append(ckCall,
                            [state |-> state, is_best |-> is_best,
                             filepath |-> filepath, best_suffix |-> best_suffix,
                             before |-> fs])
        /\ UNCHANGED <<meterVars, timerVars, schedVars, accVars>>

SaveCheckpointAny ==
    \E state \in CkStates, is_best \in BOOLEAN, filepath \in FilePaths,
       best_suffix \in Suffixes :
        SaveCheckpoint(state, is_best, filepath, best_suffix)

----------------------------------------------------------------------------
(* CyclicLr and StepMinLr                                                  *)

MaxEpoch == 5
MaxStart == 2
MaxPeriod == 3
MaxCycle == 4

None == <<>>
InitLrs == {Rat(1, 100), RInt(1)}
Factors == {Rat(1, 2), Rat(2, 3)}
MinLrs == {None, Rat(1, 10), Rat(1, 1000)}
Epochs == (0 - MaxEpoch)..MaxEpoch

CyclicLrs ==
    [kind : {"CyclicLr"}, start_epoch : 0..MaxStart, init_lr : InitLrs,
     num_epochs_per_cycle : 1..MaxCycle, epochs_pro_decay : 1..MaxPeriod,
     lr_decay_factor : Factors, min_lr : {None}]

StepMinLrs ==
    [kind : {"StepMinLr"}, start_epoch : 0..MaxStart, init_lr : InitLrs,
     num_epochs_per_cycle : {1}, epochs_pro_decay : 1..MaxPeriod,
     lr_decay_factor : Factors, min_lr : MinLrs]

PyModTruncated(a, n) == a - n * TruncDiv(a, n)

\* Python's a % n for n > 0: the remainder of floor division, never negative
PyMod(a, n) == a - n * (a \div n)

\* cur_epoch_in_cycle = (epoch - self.start_epoch) % self.num_epochs_per_cycle
CycleEpoch(c, epoch) == PyMod(epoch - c.start_epoch, c.num_epochs_per_cycle)

\* CyclicLr.__call__
CyclicRate(c, epoch) ==
    RMul(c.init_lr,
         RPow(c.lr_decay_factor,
              TruncDiv(CycleEpoch(c, epoch), c.epochs_pro_decay)))

StepMinStepsFloor(c, epoch) == (epoch - c.start_epoch) \div c.epochs_pro_decay

\* int(cur_epoch / self.epochs_pro_decay) with cur_epoch = epoch - start_epoch
StepMinSteps(c, epoch) == TruncDiv(epoch - c.start_epoch, c.epochs_pro_decay)

\* lr before the floor is applied
StepMinRaw(c, epoch) ==
    RMul(c.init_lr, RPow(c.lr_decay_factor, StepMinSteps(c, epoch)))

StepMinRateNoFloor(c, epoch) == StepMinRaw(c, epoch)

\* StepMinLr.__call__
StepMinRate(c, epoch) ==
    IF c.min_lr # None THEN RMaxOf(StepMinRaw(c, epoch), c.min_lr)
    ELSE StepMinRaw(c, epoch)

SchedInit ==
    /\ sched \in CyclicLrs \cup StepMinLrs
    /\ epochArg = 0
    /\ lrOut = None

CallCyclicLr(epoch) ==
    /\ sched.kind = "CyclicLr"
    /\ epochArg' = epoch
    /\ lrOut' = CyclicRate(sched, epoch)
    /\ UNCHANGED sched
    /\ UNCHANGED <<meterVars, timerVars, ckVars, accVars>>

CallStepMinLr(epoch) ==
    /\ sched.kind = "StepMinLr"
    /\ epochArg' = epoch
    /\ lrOut' = StepMinRate(sched, epoch)
    /\ UNCHANGED sched
    /\ UNCHANGED <<meterVars, timerVars, ckVars, accVars>>

CallCyclicLrAny == \E epoch \in Epochs : CallCyclicLr(epoch)
CallStepMinLrAny == \E epoch \in Epochs : CallStepMinLr(epoch)

----------------------------------------------------------------------------
(* accuracy                                                                *)
(*                                                                         *)
(* output[i][c + 1] is the score of class c for example i, target[i] the   *)
(* label of example i; classes are numbered from 0 as in the tensors.      *)

MaxBatch == 2
Classes == {0, 1, 2}
NumClasses == Cardinality(Classes)
TopKs == {<<1>>, <<2>>, <<1, 2>>, <<3, 1>>}

\* score rows: distinct scores, a tie for the highest, a tie for the lowest,
\* and all scores equal
Rows == {<<2, 1, 0>>, <<0, 2, 1>>, <<1, 1, 0>>, <<1, 0, 0>>, <<1, 1, 1>>}

Batches ==
    UNION { [output : [1..b -> Rows], target : [1..b -> Classes], topk : TopKs]
            : b \in 1..MaxBatch }

MaxOf(s) == CHOOSE x \in {s[i] : i \in 1..Len(s)} :
                \A i \in 1..Len(s) : s[i] <= x

\* output.topk(maxk, 1, True, True) for one row: maxk distinct classes of
\* highest score, in descending order of score; the order among equal scores
\* is the library's choice
TopkOfRow(row, maxk) ==
    { p \in [1..maxk -> Classes] :
        /\ \A a, b \in 1..maxk : a < b => p[a] # p[b] /\ row[p[a] + 1] >= row[p[b] + 1]
        /\ \A c \in Classes :
             (\A a \in 1..maxk : p[a] # c) => row[c + 1] <= row[p[maxk] + 1] }

CorrectCountAllRows(pr, target, k) ==
    Cardinality({ji \in (1..Len(pr)) \X (1..Len(target)) :
                    pr[ji[1]][ji[2]] = target[ji[2]]})

\* correct[:k].view(-1).float().sum(0): the entries of the first k rows of
\* correct = pred.eq(target.view(1, -1).expand_as(pred)) that are true
CorrectCount(pr, target, k) ==
    Cardinality({ji \in (1..k) \X (1..Len(target)) :
                    pr[ji[1]][ji[2]] = target[ji[2]]})

\* res: for k in topk, correct_k.mul_(100.0 / batch_size)
AccuracyRes(pr, target, topk) ==
    [x \in 1..Len(topk) |->
        RMul(RInt(CorrectCount(pr, target, topk[x])), Rat(100, Len(target)))]

AccInit ==
    /\ batch \in Batches
    /\ pred = <<>>
    /\ res = <<>>
    /\ apc = "ready"

\* _, pred = output.topk(maxk, 1, True, True); pred = pred.t(): the values
\* pred may take, pred[j][i] being the class ranked j for example i
TopkPreds(output, maxk) ==
    LET B == Len(output)
        choices == [i \in 1..B |-> TopkOfRow(output[i], maxk)]
        perRows == {f \in [1..B -> UNION {choices[i] : i \in 1..B}] :
                       \A i \in 1..B : f[i] \in choices[i]}
    IN  {[j \in 1..maxk |-> [i \in 1..B |-> f[i][j]]] : f \in perRows}

\* accuracy(output, target, topk)
Accuracy ==
    /\ apc = "ready"
    /\ pred' \in TopkPreds(batch.output, MaxOf(batch.topk))
    /\ res' = AccuracyRes(pred', batch.target, batch.topk)
    /\ apc' = "returned"
    /\ UNCHANGED batch
    /\ UNCHANGED <<meterVars, timerVars, ckVars, schedVars>>

----------------------------------------------------------------------------
(* Specifications                                                          *)

\* the state of a helper that a specification leaves alone
TimerIdle ==
    /\ tpc = "idle"
    /\ targs = [msg |-> "load", log_start |-> FALSE, tformat |-> "s"]
    /\ now = 0
    /\ start = 0
    /\ out = <<>>
    /\ bodyEnd = "none"
    /\ texc = "none"

SchedIdle ==
    /\ sched = [kind |-> "StepMinLr", start_epoch |-> 0, init_lr |-> Rat(1, 100),
                num_epochs_per_cycle |-> 1, epochs_pro_decay |-> 2,
                lr_decay_factor |-> Rat(1, 2), min_lr |-> None]
    /\ epochArg = 0
    /\ lrOut = None

AccIdle ==
    /\ batch = [output |-> <<[c \in 1..NumClasses |-> 0]>>, target |-> <<0>>,
                topk |-> <<1>>]
    /\ pred = <<>>
    /\ res = <<>>
    /\ apc = "ready"

InitMeter == MeterInit /\ TimerIdle /\ CkInit /\ SchedIdle /\ AccIdle
NextMeter == Reset \/ UpdateAny
SpecMeter == InitMeter /\ [][NextMeter]_vars

InitTimer == MeterInit /\ TimerInit /\ CkInit /\ SchedIdle /\ AccIdle
NextTimer == EnterAny \/ BodyRunsAny \/ ExitNormal \/ ExitRaise
SpecTimer == InitTimer /\ [][NextTimer]_vars

InitCheckpoint == MeterInit /\ TimerIdle /\ CkInit /\ SchedIdle /\ AccIdle
NextCheckpoint == SaveCheckpointAny
SpecCheckpoint == InitCheckpoint /\ [][NextCheckpoint]_vars

InitSched == MeterInit /\ TimerIdle /\ CkInit /\ SchedInit /\ AccIdle
NextSched == CallCyclicLrAny \/ CallStepMinLrAny
SpecSched == InitSched /\ [][NextSched]_vars

InitAccuracy == MeterInit /\ TimerIdle /\ CkInit /\ SchedIdle /\ AccInit
NextAccuracy == Accuracy
SpecAccuracy == InitAccuracy /\ [][NextAccuracy]_vars

----------------------------------------------------------------------------
(* AverageMeter: claims C1 and C9 (SpecMeter)                              *)

RECURSIVE SumProducts(_)
SumProducts(cs) ==
    IF cs = <<>> THEN 0 ELSE cs[1].val * cs[1].n + SumProducts(Tail(cs))

RECURSIVE SumWeights(_)
SumWeights(cs) == IF cs = <<>> THEN 0 ELSE cs[1].n + SumWeights(Tail(cs))

\* C1: after any sequence of update(v_i, w_i) calls on a fresh or reset meter,
\* sum is the sum of v_i * w_i, count the sum of w_i, val the last v, and
\* avg = sum / count whenever count > 0; a fresh or reset meter (no call
\* since) has val, avg, sum and count all 0.
C1_MeterTotals ==
    /\ meter.sum = SumProducts(calls)
    /\ meter.count = SumWeights(calls)
    /\ calls # <<>> => meter.val = calls[Len(calls)].val
    /\ meter.count > 0 => meter.avg[1] * meter.count = meter.sum * meter.avg[2]
    /\ calls = <<>> =>
          meter.val = 0 /\ meter.avg[1] = 0 /\ meter.sum = 0 /\ meter.count = 0

\* three weighted updates with a weight other than 1 and a fractional mean
C1_Witness ==
    /\ Len(calls) = 3
    /\ \E i \in 1..3 : calls[i].n = 2 /\ calls[i].val # 0
    /\ meter.count > 0
    /\ meter.avg[2] > 1

\* C9: update(value, 0) raises no error in any state; on a fresh or
\* just-reset meter it leaves avg at 0 and count and sum unchanged.
C9_UpdateZeroNeverRaises ==
    (calls # <<>> /\ calls[Len(calls)].n = 0) =>
        /\ raised = "none"
        /\ Len(calls) = 1 =>
              meter.avg[1] = 0 /\ meter.count = 0 /\ meter.sum = 0

----------------------------------------------------------------------------
(* timed_operation: claims C2 and C3 (SpecTimer)                           *)

Units == {"s", "m", "h", "d"}

\* the divisor table the claims give
Divisor(unit) ==
    CASE unit = "s" -> 1
      [] unit = "m" -> 60
      [] unit = "h" -> 3600
      [] unit = "d" -> 86400

FinishedLines == {i \in 1..Len(out) : out[i].kind = "finished"}

\* C2: when the enclosed operation completes normally, the exit raises iff
\* tformat is not one of s, m, h, d; for each of the four exactly one
\* completion line is printed, with the elapsed time divided by 1, 60, 3600
\* and 86400; for any other unit no completion line is printed.
C2_RaisesIffUnknownUnit ==
    (tpc = "done" /\ bodyEnd = "normal") =>
        /\ (texc # "none") <=> (targs.tformat \notin Units)
        /\ targs.tformat \in Units =>
              /\ Cardinality(FinishedLines) = 1
              /\ \A i \in FinishedLines :
                    /\ out[i].msg = targs.msg
                    /\ out[i].unit = targs.tformat
                    /\ out[i].value =
                          Fmt4(Rat(now - start, Divisor(targs.tformat)))
        /\ targs.tformat \notin Units => FinishedLines = {}

\* C3: when the enclosed operation raises, with a recognized tformat, the
\* completion line is still printed and the same exception then reaches the
\* caller.
C3_LogsWhenBodyRaises ==
    (tpc = "done" /\ bodyEnd = "raised" /\ targs.tformat \in Units) =>
        /\ Cardinality(FinishedLines) = 1
        /\ texc = "BodyError"

----------------------------------------------------------------------------
(* save_checkpoint: claims C4 and C5 (SpecCheckpoint)                      *)

LastSave == ckCall[Len(ckCall)]

Exists(f, q) == q \in DOMAIN f
SameFile(f, g, q) ==
    /\ Exists(f, q) <=> Exists(g, q)
    /\ Exists(f, q) => f[q] = g[q]
Holds(f, q, content) == Exists(f, q) /\ f[q] = content

Returned == ckCall # <<>> /\ ckRaised = "none"

\* C4 as stated: after save_checkpoint(state, True, p, s) returns, p and the
\* best file both hold state; after save_checkpoint(state, False, p, s) only
\* p is written and the best file is exactly as it was.
C4_BestFileUntouchedUnlessBest ==
    Returned =>
        LET c == LastSave
            best == BestPath(c.filepath, c.best_suffix)
        IN  /\ Holds(fs, c.filepath, c.state)
            /\ c.is_best => Holds(fs, best, c.state)
            /\ ~c.is_best =>
                  /\ SameFile(fs, c.before, best)
                  /\ \A q \in (DOMAIN fs \cup DOMAIN c.before) \ {c.filepath} :
                        SameFile(fs, c.before, q)

\* C4 amended: after save_checkpoint(state, True, p, s) returns, p and the
\* best file both hold state; after save_checkpoint(state, False, p, s) the
\* file at p holds state and every other file, the best file included when
\* its path is not p, is exactly as it was.
C4_OnlyPrimaryWrittenUnlessBest ==
    Returned =>
        LET c == LastSave
            best == BestPath(c.filepath, c.best_suffix)
        IN  /\ Holds(fs, c.filepath, c.state)
            /\ c.is_best => Holds(fs, best, c.state)
            /\ ~c.is_best =>
                  /\ best # c.filepath => SameFile(fs, c.before, best)
                  /\ \A q \in (DOMAIN fs \cup DOMAIN c.before) \ {c.filepath} :
                        SameFile(fs, c.before, q)

\* a save with is_best=False that overwrites p while a best file with other
\* content exists
C4_Witness ==
    /\ Returned
    /\ ~LastSave.is_best
    /\ LET c == LastSave
           best == BestPath(c.filepath, c.best_suffix)
       IN  /\ best # c.filepath
           /\ Exists(c.before, best) /\ c.before[best] # c.state
           /\ Exists(c.before, c.filepath) /\ c.before[c.filepath] # c.state

\* the part of p up to and including its last "/": the directory of p
DirPrefix(p) ==
    CHOOSE d \in {SubSeq(p, 1, i) : i \in 0..Len(p)} :
        /\ d = <<>> \/ d[Len(d)] = "/"
        /\ \A i \in (Len(d) + 1)..Len(p) : p[i] # "/"

\* the file name of p from its first "." on: the extension of p
Extension(p) ==
    LET base == SubSeq(p, Len(DirPrefix(p)) + 1, Len(p))
        dots == {i \in 1..Len(base) : base[i] = "."}
    IN  IF dots = {} THEN <<>>
        ELSE SubSeq(base, CHOOSE i \in dots : \A j \in dots : i <= j, Len(base))

\* C5 as stated: the best copy is in the directory of the primary file and
\* is named model_best{best_suffix} followed by the extension of filepath.
C5_BestKeepsExtension ==
    (Returned /\ LastSave.is_best) =>
        LET c == LastSave
        IN  Holds(fs, DirPrefix(c.filepath) \o <<"model_best">> \o c.best_suffix
                      \o Extension(c.filepath),
                  c.state)

\* C5 amended: the best copy is in the directory of the primary file and is
\* named model_best{best_suffix}.pth.tar, whatever the extension of filepath;
\* the call writes no file but these two.
C5_BestIsPthTar ==
    (Returned /\ LastSave.is_best) =>
        LET c == LastSave
            best == DirPrefix(c.filepath) \o <<"model_best">> \o c.best_suffix
                    \o <<".", "pth", ".", "tar">>
        IN  /\ Holds(fs, best, c.state)
            /\ \A q \in (DOMAIN fs \cup DOMAIN c.before) \ {c.filepath, best} :
                  SameFile(fs, c.before, q)

\* a best copy of a primary file in a directory, with another extension and a
\* suffix
C5_Witness ==
    /\ Returned
    /\ LastSave.is_best
    /\ LastSave.filepath = <<"run", "/", "ckpt", ".", "pt">>
    /\ LastSave.best_suffix = <<"_x">>
    /\ Exists(fs, <<"run", "/", "model_best", "_x", ".", "pth", ".", "tar">>)

----------------------------------------------------------------------------
(* CyclicLr and StepMinLr: claims C6, C7 and C10 (SpecSched)               *)

Called(kind) == sched.kind = kind /\ lrOut # None

RLess(a, b) == a[1] * b[2] < b[1] * a[2]

\* floor(a / b) for a >= 0 and b > 0, by its definition
FloorOf(a, b) == CHOOSE k \in 0..a : k * b <= a /\ a < (k + 1) * b

\* init * factor^k for k >= 0, by repeated multiplication
RECURSIVE Decayed(_, _, _)
Decayed(init, factor, k) ==
    IF k = 0 THEN init ELSE Decayed(RMul(init, factor), factor, k - 1)

\* C6: with 0 < lr_decay_factor < 1, init_lr > 0 and epochs_pro_decay >= 1
\* the StepMinLr rate is non-increasing in epoch, epochs before start_epoch
\* included, and with min_lr configured it is never below min_lr: it is the
\* larger of the decayed rate and min_lr.
C6_StepMinMonotoneAndFloored ==
    Called("StepMinLr") =>
        /\ \A e \in Epochs :
              /\ e >= epochArg => RLeq(StepMinRate(sched, e), lrOut)
              /\ e <= epochArg => RLeq(lrOut, StepMinRate(sched, e))
        /\ sched.min_lr # None =>
              /\ RLeq(sched.min_lr, lrOut)
              /\ RLeq(StepMinRaw(sched, epochArg), lrOut)
              /\ lrOut \in {sched.min_lr, StepMinRaw(sched, epochArg)}
              /\ epochArg >= sched.start_epoch =>
                    lrOut = RMaxOf(Decayed(sched.init_lr, sched.lr_decay_factor,
                                           FloorOf(epochArg - sched.start_epoch,
                                                   sched.epochs_pro_decay)),
                                   sched.min_lr)

\* a call where the floor decides the rate, after a call-free start
C6_Witness ==
    /\ Called("StepMinLr")
    /\ sched.min_lr # None
    /\ lrOut = sched.min_lr
    /\ RLess(StepMinRaw(sched, epochArg), sched.min_lr)
    /\ epochArg > sched.start_epoch

\* the remainder r in 0..n-1 with a - r a multiple of n
RemainderOf(a, n) ==
    CHOOSE r \in 0..(n - 1) : \E q \in (0 - Abs(a) - 1)..Abs(a) : a = q * n + r

\* C7: the CyclicLr rate is init_lr at start_epoch and at start_epoch +
\* num_epochs_per_cycle, has period num_epochs_per_cycle over all epochs,
\* and is init_lr * lr_decay_factor^floor(position / epochs_pro_decay) where
\* the cycle position is the non-negative remainder of epoch - start_epoch,
\* also for epoch < start_epoch.
C7_CyclicPeriodic ==
    Called("CyclicLr") =>
        LET n == sched.num_epochs_per_cycle
            pos == RemainderOf(epochArg - sched.start_epoch, n)
        IN  /\ CycleEpoch(sched, epochArg) = pos
            /\ epochArg = sched.start_epoch => lrOut = sched.init_lr
            /\ epochArg = sched.start_epoch + n => lrOut = sched.init_lr
            /\ \A e \in Epochs :
                  (e = epochArg + n \/ e = epochArg - n) =>
                      CyclicRate(sched, e) = lrOut
            /\ lrOut = Decayed(sched.init_lr, sched.lr_decay_factor,
                               FloorOf(pos, sched.epochs_pro_decay))

\* a call before start_epoch, late in its cycle, where the rate has decayed
C7_Witness ==
    /\ Called("CyclicLr")
    /\ epochArg < sched.start_epoch
    /\ CycleEpoch(sched, epochArg) >= sched.epochs_pro_decay
    /\ RLess(lrOut, sched.init_lr)

\* C10: StepMinLr rounds (epoch - start_epoch) / epochs_pro_decay toward
\* zero: the step count is the floor for epoch >= start_epoch, the negated
\* floor of the negated quotient before it, and 0 for start_epoch -
\* epochs_pro_decay < epoch < start_epoch, where the unfloored rate is
\* init_lr and not init_lr / lr_decay_factor.
C10_StepsTruncateTowardZero ==
    Called("StepMinLr") =>
        LET el == epochArg - sched.start_epoch
            d == sched.epochs_pro_decay
        IN  /\ el >= 0 =>
                  /\ StepMinSteps(sched, epochArg) = FloorOf(el, d)
                  /\ sched.min_lr = None =>
                        lrOut = Decayed(sched.init_lr, sched.lr_decay_factor,
                                        FloorOf(el, d))
            /\ el < 0 => StepMinSteps(sched, epochArg) = 0 - FloorOf(0 - el, d)
            /\ (0 - d < el /\ el < 0) =>
                  /\ StepMinSteps(sched, epochArg) = 0
                  /\ StepMinRaw(sched, epochArg) = sched.init_lr
                  /\ sched.min_lr = None =>
                        /\ lrOut = sched.init_lr
                        /\ lrOut # RDiv(sched.init_lr, sched.lr_decay_factor)

\* a call less than one decay period before start_epoch
C10_Witness ==
    /\ Called("StepMinLr")
    /\ sched.min_lr = None
    /\ epochArg < sched.start_epoch
    /\ sched.start_epoch - sched.epochs_pro_decay < epochArg
    /\ lrOut = sched.init_lr

----------------------------------------------------------------------------
(* accuracy: claim C8 (SpecAccuracy)                                       *)

Examples == 1..Len(batch.target)
Score(i, c) == batch.output[i][c + 1]

\* the label of example i is in every choice of its k highest-scored classes
SurelyInTop(i, k) ==
    Cardinality({c \in Classes \ {batch.target[i]} :
                    Score(i, c) >= Score(i, batch.target[i])}) < k

\* the label of example i is in some choice of its k highest-scored classes
PossiblyInTop(i, k) ==
    Cardinality({c \in Classes : Score(i, c) > Score(i, batch.target[i])}) < k

Percent(n) == Rat(100 * n, Len(batch.target))

\* C8: accuracy returns one value per k of topk, in order; the value for k is
\* 100 * (examples whose label is among the example's k highest-scored
\* classes) / (batch size), the classes being those topk selected: every
\* example whose label must be among them counts and none counts whose label
\* cannot be; the value is 100 for k = 1 when every label is the strictly
\* highest-scored class.
C8_TopkPercent ==
    apc = "returned" =>
        /\ Len(res) = Len(batch.topk)
        /\ \A x \in 1..Len(batch.topk) :
              LET k == batch.topk[x]
                  sel(i) == {pred[j][i] : j \in 1..k}
              IN  /\ res[x] = Percent(Cardinality(
                                 {i \in Examples : batch.target[i] \in sel(i)}))
                  /\ RLeq(Percent(Cardinality(
                             {i \in Examples : SurelyInTop(i, k)})), res[x])
                  /\ RLeq(res[x], Percent(Cardinality(
                             {i \in Examples : PossiblyInTop(i, k)})))
                  /\ (k = 1 /\ \A i \in Examples : SurelyInTop(i, 1)) =>
                        res[x] = RInt(100)

\* two examples, one right at k = 1 and both right at k = 2
C8_Witness ==
    /\ apc = "returned"
    /\ Len(batch.target) = 2
    /\ batch.topk = <<1, 2>>
    /\ res = <<RInt(50), RInt(100)>>
    /\ \A i \in Examples :
          \A c, d \in Classes : c # d => Score(i, c) # Score(i, d)

====
